---------------------------- MODULE Spec2Model ----------------------------
(***************************************************************************)
(* The species-collection pipeline of src/inat_species_data.py: the rate   *)
(* gate, the paginated listing fetch, the lazily built phylum cache, the   *)
(* taxonomy classifier, the per-species histogram fetch, the peak month    *)
(* and the report.  Python's 0-based positions are written 1-based here:   *)
(* ancestor_ids[1] of the source is ids[2], histogram index 2 is h[3].     *)
(***************************************************************************)
EXTENDS Integers, Sequences, FiniteSets, TLC

VARIABLES
    pc,               \* position of main(): listing, process, histograms, hist_fetch,
                      \* finalize, write, done, aborted (or the position of a function call)
    error,            \* the exception that ended the run ("none" while there is none)
    filter_file,      \* the id filter file on disk (args.filter)
    filter_reads,     \* how many times the filter file was read
    filter_ids,       \* get_species_for_place: the local filter_ids, as last read
    page,             \* get_species_for_place: the local page
    species_results,  \* get_species_for_place: the accumulated entries
    listing_log,      \* the listing requests issued: page and what the service answered
    phyla_ids,        \* the module-level phylum cache (a dict: id -> name)
    phyla_log,        \* the phylum-table requests issued (page numbers, all attempts)
    phyla_attempts,   \* how many times fetch_phyla_ids was called
    idx,              \* main: position in species_results of the result being processed
    species_data,     \* main: the dict keyed by taxon_id, in insertion order
    last_call,        \* the last extract_taxonomy call: its argument and what it returned
    zero_list,        \* get_histograms: zero_histogram_species
    hidx,             \* get_histograms: position in zero_histogram_species
    hist_log,         \* the histogram requests issued: taxon id and whether it raised
    report,           \* the CSV file: whether it was written, and its rows
    call_arg,         \* the argument of a function called on its own
    call_ret,         \* what that function returned
    now,              \* the rate gate's clock
    last_reset,       \* limits: self.last_reset
    num_calls,        \* limits: self.num_calls
    gate_pc,          \* rate_limited_api_call: idle, sleeping, running
    wake_at,          \* sleep_and_retry: the time the sleep ends
    starts,           \* the start times of the admitted calls still inside the trailing window
    latency           \* the time the service takes for a request in this run

vars == <<pc, error, filter_file, filter_reads, filter_ids, page, species_results,
          listing_log,
          phyla_ids, phyla_log, phyla_attempts, idx, species_data, last_call,
          zero_list, hidx, hist_log, report, call_arg, call_ret,
          now, last_reset, num_calls, gate_pc, wake_at, starts, latency>>

pipeline_vars == <<pc, error, filter_file, filter_reads, filter_ids, page, species_results,
                   listing_log, phyla_ids, phyla_log, phyla_attempts, idx,
                   species_data, last_call, zero_list, hidx, hist_log, report>>

call_vars == <<call_arg, call_ret>>

gate_vars == <<now, last_reset, num_calls, gate_pc, wake_at, starts, latency>>

-----------------------------------------------------------------------------
(* Program constants and the bounds of the model.                          *)

\* MAX_PAGES = 5 (line 23): the page ceiling of both paginations.
MAX_PAGES == 5

\* CALLS = 30 and RATE_LIMIT_PERIOD = 60 (lines 19-20), scaled down so that the
\* budget is exhausted within the explored horizon; the gate is the same for any
\* positive values.
CALLS == 2

RATE_LIMIT_PERIOD == 3

\* The most entries the listing holds over all its pages.
MaxEntries == 3

\* The horizon of the gate's clock.
MaxTime == 7

\* The longest ancestor-id sequence handed to extract_taxonomy on its own.
MaxAncestors == 3

\* Histograms handed to get_month_with_most_obs on its own: the largest count
\* and the largest number of months with observations.
MaxObs == 2

MaxNonzeroMonths == 3

\* Species collections handed to write_data_to_csv on its own: the most rows
\* and the largest count.
MaxRows == 4

MaxCount == 2

\* Mappings handed to get_histogram_for_species on its own: the most months
\* they hold.
MaxMonthKeys == 2

\* Filter files handed to the listing fetcher on its own: the most rows.
MaxFileRows == 2

-----------------------------------------------------------------------------
(* Helpers for Python's containers.                                        *)

EmptyDict == [k \in {} |-> "Unknown"]

\* dict.get(key, default)
dict_get(d, key, default) == IF key \in DOMAIN d THEN d[key] ELSE default

\* dict.update(batch): the batch's values win
dict_update(d, batch) == batch @@ d

Range(s) == {s[i] : i \in 1..Len(s)}

\* {taxon["id"]: taxon["name"] for taxon in results}: a later taxon wins
RECURSIVE batch_of(_)
batch_of(results) ==
    IF results = <<>> THEN EmptyDict
    ELSE LET t == results[Len(results)]
         IN  (t.id :> t.name) @@ batch_of(SubSeq(results, 1, Len(results) - 1))


-----------------------------------------------------------------------------
(* What the outside world can hand the program: the filter file, and the   *)
(* observation service's answers.                                          *)

\* A csv file: whether it exists, and its rows of cells; a cell is its characters.
Cell45 == <<"4", "5">>

Cell12a == <<"1", "2", "a">>

\* The files of a run: none, and one with the ids 45 and 45 among cells that
\* are no integers.
FilterFiles ==
    { [exists |-> FALSE, rows |-> <<>>],
      [exists |-> TRUE,  rows |-> << <<Cell12a, Cell45>>, <<<<>>, Cell45>> >>] }

\* Listing entries (result["taxon"] flattened): EntryC repeats EntryA's taxon id
\* with another count and carries ancestor data that is no list (None).
EntryA == [id |-> 45, count |-> 3, latin_name |-> "Aus bus", common_name |-> "bus",
           iconic_taxon_name |-> "Animalia",
           ancestor_ids |-> [wellformed |-> TRUE, ids |-> <<48460, 1, 2, 355675>>]]

EntryB == [id |-> 7, count |-> 7, latin_name |-> "Cus dus", common_name |-> "",
           iconic_taxon_name |-> "Insecta",
           ancestor_ids |-> [wellformed |-> TRUE, ids |-> <<48460, 1, 20978>>]]

EntryC == [id |-> 45, count |-> 7, latin_name |-> "Aus bus", common_name |-> "bus",
           iconic_taxon_name |-> "Animalia",
           ancestor_ids |-> [wellformed |-> FALSE, ids |-> <<>>]]

\* An entry whose taxon carries no "name".
EntryD == [id |-> 9, count |-> 3, common_name |-> "",
           iconic_taxon_name |-> "Animalia",
           ancestor_ids |-> [wellformed |-> TRUE, ids |-> <<48460, 1, 2>>]]

\* An answer to a listing request: the call raises, or it returns an empty dict
\* (no "results" key), or a dict holding "results".
ListingResponses ==
    { [kind |-> "raise",      results |-> <<>>],
      [kind |-> "empty_dict", results |-> <<>>],
      [kind |-> "ok",         results |-> <<>>],
      [kind |-> "ok",         results |-> <<EntryA, EntryB>>],
      [kind |-> "ok",         results |-> <<EntryC>>],
      [kind |-> "ok",         results |-> <<EntryD>>] }

\* The service's table of rank-level-60 taxa, by page.
PhylaTable(p) ==
    IF p = 1 THEN <<[id |-> 2, name |-> "Chordata"], [id |-> 47115, name |-> "Mollusca"]>>
    ELSE IF p = 2 THEN <<[id |-> 20978, name |-> "Arthropoda"]>>
    ELSE IF p = 3 THEN <<[id |-> 47491, name |-> "Annelida"]>>
    ELSE IF p = 4 THEN <<[id |-> 47549, name |-> "Echinodermata"]>>
    ELSE <<[id |-> 47534, name |-> "Cnidaria"]>>

\* An answer to the request for phylum page p: the call raises, or the table has
\* ended (no results), or the page of the table.
PhylaResponses(p) ==
    { [kind |-> "raise", results |-> <<>>],
      [kind |-> "ok",    results |-> <<>>],
      [kind |-> "ok",    results |-> PhylaTable(p)] }

\* The service's answers to phylum pages 1..MAX_PAGES, should they be asked.
RECURSIVE answers_up_to(_)
answers_up_to(n) ==
    IF n = 0 THEN {<<>>}
    ELSE {Append(a, r) : a \in answers_up_to(n - 1), r \in PhylaResponses(n)}

PhylaAnswers == answers_up_to(MAX_PAGES)

\* The time the service takes for a request of a run, on the clock the gate reads.
Latencies == {0, 1, 2}

\* An answer to a histogram request: the call raises, or it returns a mapping,
\* given as its items <<month, count>> in iteration order.
HistResponses ==
    { [kind |-> "raise", items |-> <<>>],
      [kind |-> "ok",    items |-> <<>>],
      [kind |-> "ok",    items |-> << <<3, 5>>, <<4, 5>> >>],
      [kind |-> "ok",    items |-> << <<1, 2>>, <<13, 1>> >>] }

-----------------------------------------------------------------------------
(* read_id_list_from_csv_file                                              *)

Digits == {"0", "1", "2", "3", "4", "5", "6", "7", "8", "9"}

DigitValue(c) ==
    CASE c = "0" -> 0 [] c = "1" -> 1 [] c = "2" -> 2 [] c = "3" -> 3 [] c = "4" -> 4
      [] c = "5" -> 5 [] c = "6" -> 6 [] c = "7" -> 7 [] c = "8" -> 8 [] c = "9" -> 9

\* int(item) on a cell written with digits, letters, blanks and signs: blanks
\* around the number are dropped, one leading sign is read, and what is left
\* must be a non-empty run of decimal digits, else ValueError.
RECURSIVE lstrip(_)
lstrip(cell) ==
    IF cell # <<>> /\ cell[1] = " " THEN lstrip(Tail(cell)) ELSE cell

RECURSIVE rstrip(_)
rstrip(cell) ==
    IF cell # <<>> /\ cell[Len(cell)] = " "
    THEN rstrip(SubSeq(cell, 1, Len(cell) - 1)) ELSE cell

strip(cell) == rstrip(lstrip(cell))

unsigned(cell) ==
    IF cell # <<>> /\ cell[1] \in {"+", "-"} THEN Tail(cell) ELSE cell

RECURSIVE digits_value(_)
digits_value(cell) ==
    IF cell = <<>> THEN 0
    ELSE 10 * digits_value(SubSeq(cell, 1, Len(cell) - 1)) + DigitValue(cell[Len(cell)])

int_value(cell) ==
    LET t == strip(cell)
    IN  IF t # <<>> /\ t[1] = "-" THEN 0 - digits_value(unsigned(t))
        ELSE digits_value(unsigned(t))

int_ok(cell) ==
    LET d == unsigned(strip(cell))
    IN  d # <<>> /\ \A i \in 1..Len(d) : d[i] \in Digits

\* A row loop that gives up the row at its first cell that is no integer.
RECURSIVE ids_of_row_stops(_)
ids_of_row_stops(row) ==
    IF row = <<>> THEN <<>>
    ELSE IF int_ok(row[1]) THEN <<int_value(row[1])>> \o ids_of_row_stops(Tail(row))
    ELSE <<>>

RECURSIVE ids_of_row(_)
ids_of_row(row) ==
    IF row = <<>> THEN <<>>
    ELSE (IF int_ok(row[1]) THEN <<int_value(row[1])>> ELSE <<>>)
         \o ids_of_row(Tail(row))

RECURSIVE ids_of_rows(_)
ids_of_rows(rows) ==
    IF rows = <<>> THEN <<>> ELSE ids_of_row(rows[1]) \o ids_of_rows(Tail(rows))

\* The list of the integers in the file, in file order; [] when the file is missing.
read_id_list_from_csv_file(file) ==
    IF file.exists THEN ids_of_rows(file.rows) ELSE <<>>

-----------------------------------------------------------------------------
(* fetch_phyla_ids and extract_taxonomy                                    *)

kingdom_ids ==
    (1 :> "Animalia") @@ (47126 :> "Plantae") @@ (47170 :> "Fungi")
    @@ (48222 :> "Chromista") @@ (47686 :> "Protozoa") @@ (67333 :> "Bacteria")
    @@ (151817 :> "Archaea")

\* A loop that skips an empty page and goes on to the next.
RECURSIVE fetch_pages_no_break(_, _, _)
fetch_pages_no_break(cache, answers, p) ==
    IF p > MAX_PAGES
    THEN [phyla_ids |-> cache, requests |-> <<>>, failed |-> FALSE]
    ELSE LET response == answers[p]
         IN  IF response.kind = "raise"
             THEN [phyla_ids |-> cache, requests |-> <<p>>, failed |-> TRUE]
             ELSE LET rest == fetch_pages_no_break(
                                  dict_update(cache, batch_of(response.results)),
                                  answers, p + 1)
                  IN  [rest EXCEPT !.requests = <<p>> \o rest.requests]

\* A loop whose failure throws away what the earlier pages gave.
RECURSIVE fetch_pages_failure_clears(_, _, _)
fetch_pages_failure_clears(cache, answers, p) ==
    IF p > MAX_PAGES
    THEN [phyla_ids |-> cache, requests |-> <<>>, failed |-> FALSE]
    ELSE LET response == answers[p]
         IN  IF response.kind = "raise"
             THEN [phyla_ids |-> EmptyDict, requests |-> <<p>>, failed |-> TRUE]
             ELSE IF response.results = <<>>
             THEN [phyla_ids |-> cache, requests |-> <<p>>, failed |-> FALSE]
             ELSE LET rest == fetch_pages_failure_clears(
                                  dict_update(cache, batch_of(response.results)),
                                  answers, p + 1)
                  IN  [rest EXCEPT !.requests = <<p>> \o rest.requests]

\* The loop of fetch_phyla_ids from page p on: the cache it leaves, the pages it
\* requested, and whether a request raised (caught at line 132).
RECURSIVE fetch_pages(_, _, _)
fetch_pages(cache, answers, p) ==
    IF p > MAX_PAGES
    THEN [phyla_ids |-> cache, requests |-> <<>>, failed |-> FALSE]
    ELSE LET response == answers[p]
         IN  IF response.kind = "raise"
             THEN [phyla_ids |-> cache, requests |-> <<p>>, failed |-> TRUE]
             ELSE IF response.results = <<>>
             THEN [phyla_ids |-> cache, requests |-> <<p>>, failed |-> FALSE]
             ELSE LET rest == fetch_pages(dict_update(cache, batch_of(response.results)),
                                          answers, p + 1)
                  IN  [rest EXCEPT !.requests = <<p>> \o rest.requests]

fetch_phyla_ids(cache, answers) == fetch_pages(cache, answers, 1)

\* A guard that fetches on every call.
needs_fetch_always(cache) == TRUE

\* line 175: if not phyla_ids
needs_fetch(cache) == DOMAIN cache = {}

\* An except branch that hands back the defaults it was given as None.
except_result_none == [kingdom |-> "None", phylum |-> "None"]

\* lines 203-205: what the except branch returns
except_result == [kingdom |-> "Unknown", phylum |-> "Unknown"]

\* lines 185-187: the second element (index 1) is the kingdom
kingdom_of(ids) ==
    IF Len(ids) > 1 THEN dict_get(kingdom_ids, ids[2], "Unknown") ELSE "Unknown"

\* A lookup one position early.
phylum_of_position_1(ids, cache) ==
    IF Len(ids) > 1 THEN dict_get(cache, ids[2], "Unknown") ELSE "Unknown"

\* lines 190-192: the third element (index 2) is the phylum
phylum_of(ids, cache) ==
    IF Len(ids) > 2 THEN dict_get(cache, ids[3], "Unknown") ELSE "Unknown"

\* extract_taxonomy(ancestor_ids) with the cache as it stands and the service's
\* answers: the pair returned, the cache afterwards, the phylum-table requests
\* issued, whether fetch_phyla_ids was called and whether a request of it raised.
extract_taxonomy(ancestor_ids, cache, answers) ==
    LET fetched == IF needs_fetch(cache)
                   THEN fetch_phyla_ids(cache, answers)
                   ELSE [phyla_ids |-> cache, requests |-> <<>>, failed |-> FALSE]
        \* line 176: phyla_ids.update(fetch_phyla_ids()) adds the dict to itself
        after   == dict_update(fetched.phyla_ids, fetched.phyla_ids)
        ids     == ancestor_ids.ids
        out(k, ph) == [kingdom |-> k, phylum |-> ph, phyla_ids |-> after,
                       requests |-> fetched.requests,
                       attempted |-> needs_fetch(cache), failed |-> fetched.failed]
    IN  IF ~ancestor_ids.wellformed
        THEN \* len(ancestor_ids) raises; caught at line 203
             out(except_result.kingdom, except_result.phylum)
        ELSE out(kingdom_of(ids), phylum_of(ids, after))

-----------------------------------------------------------------------------
(* get_month_with_most_obs and get_histogram_for_species                   *)

months == <<"January", "February", "March", "April", "May", "June", "July",
            "August", "September", "October", "November", "December">>

Zeros12 == [i \in 1..12 |-> 0]

all_zero(histogram) == \A i \in 1..Len(histogram) : histogram[i] = 0

\* max(histogram)
list_max(histogram) ==
    CHOOSE m \in Range(histogram) : \A i \in 1..Len(histogram) : histogram[i] <= m

\* The last position holding value.
list_index_last(histogram, value) ==
    CHOOSE i \in 1..Len(histogram) :
        histogram[i] = value /\ \A j \in (i + 1)..Len(histogram) : histogram[j] # value

\* histogram.index(value): the first position holding value
list_index(histogram, value) ==
    CHOOSE i \in 1..Len(histogram) :
        histogram[i] = value /\ \A j \in 1..(i - 1) : histogram[j] # value

get_month_with_most_obs(histogram) ==
    IF histogram = <<>> \/ all_zero(histogram)
    THEN "No data"
    ELSE months[list_index(histogram, list_max(histogram))]

\* A loop that stores the count of month m at position m.
RECURSIVE fill_histogram_unshifted(_, _)
fill_histogram_unshifted(histogram, items) ==
    IF items = <<>> THEN [raised |-> FALSE, histogram |-> histogram]
    ELSE LET month == items[1][1]
             count == items[1][2]
         IN  IF month \notin (-12)..11
             THEN [raised |-> TRUE, histogram |-> histogram]
             ELSE fill_histogram_unshifted(
                      [histogram EXCEPT ![IF month >= 0 THEN month + 1 ELSE month + 13] = count],
                      Tail(items))

\* The loop of lines 267-269 over the items left: histogram[int(month) - 1] = count.
\* Python accepts the positions -12..11 (a negative one counts from the end) and
\* raises IndexError for any other.
RECURSIVE fill_histogram(_, _)
fill_histogram(histogram, items) ==
    IF items = <<>> THEN [raised |-> FALSE, histogram |-> histogram]
    ELSE LET month == items[1][1] - 1
             count == items[1][2]
         IN  IF month \notin (-12)..11
             THEN [raised |-> TRUE, histogram |-> histogram]
             ELSE fill_histogram(
                      [histogram EXCEPT ![IF month >= 0 THEN month + 1 ELSE month + 13] = count],
                      Tail(items))

\* An except branch that returns the histogram as far as it was filled.
get_histogram_for_species_partial(response) ==
    IF response.kind = "raise"
    THEN [histogram |-> Zeros12, failed |-> TRUE]
    ELSE LET filled == fill_histogram(Zeros12, response.items)
         IN  [histogram |-> filled.histogram, failed |-> filled.raised]

\* get_histogram_for_species with the service's answer: the 12-element list
\* returned, and whether the except branch was taken.
get_histogram_for_species(response) ==
    IF response.kind = "raise"
    THEN [histogram |-> Zeros12, failed |-> TRUE]
    ELSE LET filled == fill_histogram(Zeros12, response.items)
         IN  IF filled.raised
             THEN [histogram |-> Zeros12, failed |-> TRUE]
             ELSE [histogram |-> filled.histogram, failed |-> FALSE]

-----------------------------------------------------------------------------
(* The species dict of main(), kept as the sequence of its values in       *)
(* insertion order (a Python dict keeps a key's place when it is assigned  *)
(* again), and the report.                                                 *)

keys_of(data) == [i \in 1..Len(data) |-> data[i].taxon_id]

has_key(data, key) == \E i \in 1..Len(data) : data[i].taxon_id = key

\* An assignment that keeps the record a key already has.
dict_set_keeps_first(data, key, record) ==
    IF has_key(data, key) THEN data ELSE Append(data, record)

\* data[key] = record
dict_set(data, key, record) ==
    IF has_key(data, key)
    THEN [i \in 1..Len(data) |-> IF data[i].taxon_id = key THEN record ELSE data[i]]
    ELSE Append(data, record)

\* data[key]
dict_at(data, key) == data[CHOOSE i \in 1..Len(data) : data[i].taxon_id = key]

\* lines 515-519: the keys of an entry that main indexes (the common name and
\* the ancestor ids are read with .get)
has_indexed_keys(result) ==
    {"iconic_taxon_name", "id", "count", "latin_name"} \subseteq DOMAIN result

\* lines 527-536: the record main stores for a listing entry
new_record(result, kingdom, phylum) ==
    [iconic_taxon_name |-> result.iconic_taxon_name,
     kingdom           |-> kingdom,
     phylum            |-> phylum,
     common_name       |-> result.common_name,
     latin_name        |-> result.latin_name,
     taxon_id          |-> result.id,
     count             |-> result.count,
     histogram         |-> Zeros12,
     peak_month        |-> "(unset)"]

\* A sort by count that puts a row before the rows of equal count.
RECURSIVE sorted_by_count_unstable(_)
sorted_by_count_unstable(rows) ==
    IF rows = <<>> THEN <<>>
    ELSE LET head == sorted_by_count_unstable(SubSeq(rows, 1, Len(rows) - 1))
             r    == rows[Len(rows)]
             k    == Cardinality({i \in 1..Len(head) : head[i].count > r.count})
         IN  SubSeq(head, 1, k) \o <<r>> \o SubSeq(head, k + 1, Len(head))

\* sorted(rows, key=count, reverse=True): insertion of each row, in order, after
\* every row whose count is not smaller (Python's sort is stable, also reversed).
RECURSIVE sorted_by_count(_)
sorted_by_count(rows) ==
    IF rows = <<>> THEN <<>>
    ELSE LET head == sorted_by_count(SubSeq(rows, 1, Len(rows) - 1))
             r    == rows[Len(rows)]
             k    == Cardinality({i \in 1..Len(head) : head[i].count >= r.count})
         IN  SubSeq(head, 1, k) \o <<r>> \o SubSeq(head, k + 1, Len(head))

\* lines 84-92: the entries of a page that pass the filter
filter_results(results, ids) ==
    IF ids # <<>>
    THEN SelectSeq(results, LAMBDA result : result.id \in Range(ids))
    ELSE results

-----------------------------------------------------------------------------
(* The run of main().                                                      *)

NoCall == [called |-> FALSE, ancestor_ids |-> [wellformed |-> TRUE, ids |-> <<>>],
           before |-> EmptyDict, kingdom |-> "", phylum |-> "",
           phyla_ids |-> EmptyDict, requests |-> <<>>,
           attempted |-> FALSE, failed |-> FALSE]

NoReport == [written |-> FALSE, rows |-> <<>>]

CallIdle == /\ call_arg = <<>>
            /\ call_ret = ""

GateIdle == /\ now = 0
            /\ last_reset = 0
            /\ num_calls = 0
            /\ gate_pc = "idle"
            /\ wake_at = 0
            /\ starts = <<>>

PipelineIdle ==
    /\ error = "none"
    /\ filter_file = [exists |-> FALSE, rows |-> <<>>]
    /\ filter_reads = 0
    /\ filter_ids = <<>>
    /\ page = 1
    /\ species_results = <<>>
    /\ listing_log = <<>>
    /\ phyla_ids = EmptyDict
    /\ phyla_log = <<>>
    /\ phyla_attempts = 0
    /\ idx = 1
    /\ species_data = <<>>
    /\ last_call = NoCall
    /\ zero_list = <<>>
    /\ hidx = 1
    /\ hist_log = <<>>
    /\ report = NoReport

Init ==
    /\ pc = "listing"
    /\ error = "none"
    /\ filter_file \in FilterFiles
    /\ filter_reads = 0
    /\ filter_ids = <<>>
    /\ page = 1
    /\ species_results = <<>>
    /\ listing_log = <<>>
    /\ phyla_ids = EmptyDict
    /\ phyla_log = <<>>
    /\ phyla_attempts = 0
    /\ idx = 1
    /\ species_data = <<>>
    /\ last_call = NoCall
    /\ zero_list = <<>>
    /\ hidx = 1
    /\ hist_log = <<>>
    /\ report = NoReport
    /\ CallIdle
    /\ GateIdle
    /\ latency \in Latencies

\* One pass through the limits wrapper at time t, the wrapper holding the last
\* reset at reset and the count calls.
limits(t, reset, calls) ==
    LET period_remaining == RATE_LIMIT_PERIOD - (t - reset)
        elapsed          == period_remaining <= 0
        counted          == (IF elapsed THEN 0 ELSE calls) + 1
    IN  [last_reset       |-> IF elapsed THEN t ELSE reset,
         num_calls        |-> counted,
         admitted         |-> counted <= CALLS,
         period_remaining |-> period_remaining]

\* The gate as the running program finds it.
gate_now ==
    [now |-> now, last_reset |-> last_reset, num_calls |-> num_calls,
     wake_at |-> wake_at, starts |-> starts]

\* rate_limited_api_call from its call to the start of func (lines 27-35): the
\* call is counted; a call counted beyond CALLS sleeps period_remaining, the
\* clock moving on with it, and is counted again. Nothing else runs meanwhile.
RECURSIVE through_gate(_)
through_gate(g) ==
    LET a == limits(g.now, g.last_reset, g.num_calls)
    IN  IF a.admitted
        THEN [g EXCEPT !.last_reset = a.last_reset,
                       !.num_calls  = a.num_calls,
                       !.starts     = Append(g.starts, g.now)]
        ELSE through_gate(
                 [now        |-> g.now + a.period_remaining,
                  last_reset |-> a.last_reset,
                  num_calls  |-> a.num_calls,
                  wake_at    |-> g.now + a.period_remaining,
                  starts     |-> SelectSeq(g.starts,
                                    LAMBDA t : t > g.now + a.period_remaining
                                                     - RATE_LIMIT_PERIOD)])

\* func(**kwargs) (line 35) runs for d units of the clock the gate reads; start
\* times that left the trailing window meanwhile are dropped.
func_runs(g, d) ==
    [g EXCEPT !.now    = g.now + d,
              !.starts = SelectSeq(g.starts,
                             LAMBDA t : t > g.now + d - RATE_LIMIT_PERIOD)]

\* n requests, one after the other, each through the gate and each taking d.
RECURSIVE requests_through_gate(_, _, _)
requests_through_gate(g, n, d) ==
    IF n = 0 THEN g
    ELSE requests_through_gate(func_runs(through_gate(g), d), n - 1, d)

\* The step of the program makes n requests, the service taking latency for
\* each: what they leave of the gate and of the clock.
GatePasses(n) ==
    LET g == requests_through_gate(gate_now, n, latency)
    IN  /\ now' = g.now
        /\ last_reset' = g.last_reset
        /\ num_calls' = g.num_calls
        /\ wake_at' = g.wake_at
        /\ starts' = g.starts
        /\ gate_pc' = gate_pc
        /\ latency' = latency

\* An exception that is swallowed: the run goes on with what it has.
AbortSwallowed(exception) ==
    /\ pc' = "histograms"
    /\ error' = exception

\* An uncaught exception ends the run.
Abort(exception) ==
    /\ pc' = "aborted"
    /\ error' = exception

\* A loop that stops one page after MAX_PAGES.
get_species_for_place_one_more(response) ==
    /\ pc = "listing"
    /\ filter_reads' = filter_reads + 1
    /\ filter_ids' = read_id_list_from_csv_file(filter_file)
    /\ LET ids == read_id_list_from_csv_file(filter_file)
       IN  IF ids # <<>>
           THEN \* line 71 reads args.input, which the parser never defines
                /\ Abort("AttributeError")
                /\ UNCHANGED <<page, species_results, listing_log>>
           ELSE /\ listing_log' = Append(listing_log,
                                         [page |-> page, kind |-> response.kind,
                                          n |-> Len(response.results),
                                          results |-> response.results])
                /\ IF response.kind = "raise"
                   THEN /\ Abort("RequestError")
                        /\ UNCHANGED <<page, species_results>>
                   ELSE IF response.kind = "empty_dict"
                   THEN \* line 92: counts_response["results"] on a dict without it
                        /\ Abort("KeyError")
                        /\ UNCHANGED <<page, species_results>>
                   ELSE LET results == filter_results(response.results, ids)
                            all     == species_results \o results
                        IN  /\ species_results' = all
                            /\ error' = error
                            /\ IF page >= MAX_PAGES + 1
                               THEN /\ pc' = IF all = <<>> THEN "histograms" ELSE "process"
                                    /\ page' = page
                               ELSE /\ pc' = pc
                                    /\ page' = page + 1
    /\ UNCHANGED <<filter_file, phyla_ids, phyla_log, phyla_attempts, idx, species_data,
                   last_call, zero_list, hidx, hist_log, report>>
    /\ UNCHANGED call_vars
    /\ GatePasses(IF read_id_list_from_csv_file(filter_file) # <<>> THEN 0 ELSE 1)

\* One pass of the while loop of get_species_for_place (lines 66-106), the
\* service answering the listing request with response.
get_species_for_place(response) ==
    /\ pc = "listing"
    /\ filter_reads' = filter_reads + 1
    /\ filter_ids' = read_id_list_from_csv_file(filter_file)
    /\ LET ids == read_id_list_from_csv_file(filter_file)
       IN  IF ids # <<>>
           THEN \* line 71 reads args.input, which the parser never defines
                /\ Abort("AttributeError")
                /\ UNCHANGED <<page, species_results, listing_log>>
           ELSE /\ listing_log' = Append(listing_log,
                                         [page |-> page, kind |-> response.kind,
                                          n |-> Len(response.results),
                                          results |-> response.results])
                /\ IF response.kind = "raise"
                   THEN /\ Abort("RequestError")
                        /\ UNCHANGED <<page, species_results>>
                   ELSE IF response.kind = "empty_dict"
                   THEN \* line 92: counts_response["results"] on a dict without it
                        /\ Abort("KeyError")
                        /\ UNCHANGED <<page, species_results>>
                   ELSE LET results == filter_results(response.results, ids)
                            all     == species_results \o results
                        IN  /\ species_results' = all
                            /\ error' = error
                            /\ IF page >= MAX_PAGES
                               THEN /\ pc' = IF all = <<>> THEN "histograms" ELSE "process"
                                    /\ page' = page
                               ELSE /\ pc' = pc
                                    /\ page' = page + 1
    /\ UNCHANGED <<filter_file, phyla_ids, phyla_log, phyla_attempts, idx, species_data,
                   last_call, zero_list, hidx, hist_log, report>>
    /\ UNCHANGED call_vars
    /\ GatePasses(IF read_id_list_from_csv_file(filter_file) # <<>> THEN 0 ELSE 1)

\* One pass of the for loop of main (lines 514-539) over species_results[idx];
\* answers is what the service would answer to the phylum-table pages.
main_process_result(answers) ==
    /\ pc = "process"
    /\ idx <= Len(species_results)
    /\ LET result == species_results[idx]
       IN  IF ~has_indexed_keys(result)
           THEN \* lines 515-519: KeyError, which nothing catches
                /\ Abort("KeyError")
                /\ UNCHANGED <<phyla_ids, phyla_log, phyla_attempts, last_call,
                               species_data, idx>>
                /\ GatePasses(0)
           ELSE LET tax == extract_taxonomy(result.ancestor_ids, phyla_ids, answers)
                IN  /\ phyla_ids' = tax.phyla_ids
                    /\ phyla_log' = phyla_log \o tax.requests
                    /\ phyla_attempts' = phyla_attempts + (IF tax.attempted THEN 1 ELSE 0)
                    /\ last_call' = [called |-> TRUE, ancestor_ids |-> result.ancestor_ids,
                                     before |-> phyla_ids,
                                     kingdom |-> tax.kingdom, phylum |-> tax.phylum,
                                     phyla_ids |-> tax.phyla_ids, requests |-> tax.requests,
                                     attempted |-> tax.attempted, failed |-> tax.failed]
                    /\ species_data' = dict_set(species_data, result.id,
                                                new_record(result, tax.kingdom, tax.phylum))
                    /\ idx' = idx + 1
                    /\ pc' = IF idx = Len(species_results) THEN "histograms" ELSE pc
                    /\ error' = error
                    /\ GatePasses(Len(tax.requests))
    /\ UNCHANGED <<filter_file, filter_reads, filter_ids, page, species_results,
                   listing_log,
                   zero_list, hidx, hist_log, report>>
    /\ UNCHANGED call_vars

\* A selection that stops at the first species without data.
zero_histogram_species_first(data) ==
    LET z == keys_of(SelectSeq(data, LAMBDA d : all_zero(d.histogram)))
    IN  IF z = <<>> THEN z ELSE <<z[1]>>

\* lines 291-296: the taxon ids whose histogram is all zeros, in dict order
zero_histogram_species(data) ==
    keys_of(SelectSeq(data, LAMBDA d : all_zero(d.histogram)))

\* get_histograms up to its first request (lines 288-302).
get_histograms_enter ==
    /\ pc = "histograms"
    /\ zero_list' = zero_histogram_species(species_data)
    /\ hidx' = 1
    /\ pc' = IF zero_histogram_species(species_data) = <<>> THEN "finalize" ELSE "hist_fetch"
    /\ UNCHANGED <<error, filter_file, filter_reads, filter_ids, page, species_results,
                   listing_log,
                   phyla_ids, phyla_log, phyla_attempts, idx, species_data, last_call,
                   hist_log, report>>
    /\ UNCHANGED <<call_vars, gate_vars>>

\* A pass that also marks the species whose request failed as unclassified.
get_histograms_fetch_marks_failed(response) ==
    /\ pc = "hist_fetch"
    /\ hidx <= Len(zero_list)
    /\ LET taxon_id == zero_list[hidx]
           got      == get_histogram_for_species(response)
       IN  /\ hist_log' = Append(hist_log, [taxon_id |-> taxon_id, failed |-> got.failed])
           /\ species_data' = dict_set(species_data, taxon_id,
                                [dict_at(species_data, taxon_id)
                                   EXCEPT !.histogram = got.histogram,
                                          !.kingdom = IF got.failed THEN "Unknown" ELSE @])
    /\ hidx' = hidx + 1
    /\ pc' = IF hidx = Len(zero_list) THEN "finalize" ELSE pc
    /\ UNCHANGED <<error, filter_file, filter_reads, filter_ids, page, species_results,
                   listing_log,
                   phyla_ids, phyla_log, phyla_attempts, idx, last_call, zero_list, report>>
    /\ UNCHANGED call_vars
    /\ GatePasses(1)

\* One pass of the loop of lines 304-324, the service answering the histogram
\* request with response.
get_histograms_fetch(response) ==
    /\ pc = "hist_fetch"
    /\ hidx <= Len(zero_list)
    /\ LET taxon_id == zero_list[hidx]
           got      == get_histogram_for_species(response)
       IN  /\ hist_log' = Append(hist_log, [taxon_id |-> taxon_id, failed |-> got.failed])
           /\ species_data' = dict_set(species_data, taxon_id,
                                [dict_at(species_data, taxon_id)
                                   EXCEPT !.histogram = got.histogram])
    /\ hidx' = hidx + 1
    /\ pc' = IF hidx = Len(zero_list) THEN "finalize" ELSE pc
    /\ UNCHANGED <<error, filter_file, filter_reads, filter_ids, page, species_results,
                   listing_log,
                   phyla_ids, phyla_log, phyla_attempts, idx, last_call, zero_list, report>>
    /\ UNCHANGED call_vars
    /\ GatePasses(1)

\* lines 326-342: peak_month for every species
get_histograms_finalize ==
    /\ pc = "finalize"
    /\ species_data' = [i \in 1..Len(species_data) |->
                          [species_data[i] EXCEPT
                             !.peak_month = get_month_with_most_obs(species_data[i].histogram)]]
    /\ pc' = "write"
    /\ UNCHANGED <<error, filter_file, filter_reads, filter_ids, page, species_results,
                   listing_log,
                   phyla_ids, phyla_log, phyla_attempts, idx, last_call, zero_list, hidx,
                   hist_log, report>>
    /\ UNCHANGED <<call_vars, gate_vars>>

\* write_data_to_csv (lines 414-447), then the end of main
write_data_to_csv ==
    /\ pc = "write"
    /\ report' = [written |-> TRUE, rows |-> sorted_by_count(species_data)]
    /\ pc' = "done"
    /\ UNCHANGED <<error, filter_file, filter_reads, filter_ids, page, species_results,
                   listing_log,
                   phyla_ids, phyla_log, phyla_attempts, idx, species_data, last_call,
                   zero_list, hidx, hist_log>>
    /\ UNCHANGED <<call_vars, gate_vars>>

\* The answers told apart by the pages that are asked: no page is asked after
\* one that raised or came back empty, so the later ones are taken as empty.
AnswersThatMatter ==
    {a \in PhylaAnswers :
        \A p \in 1..MAX_PAGES :
            (a[p].kind = "raise" \/ a[p].results = <<>>) =>
                \A q \in (p + 1)..MAX_PAGES : a[q] = [kind |-> "ok", results |-> <<>>]}

\* The service is asked for phylum pages only by a call that finds the cache empty.
AnswersAsked ==
    IF needs_fetch(phyla_ids) THEN AnswersThatMatter
    ELSE {[p \in 1..MAX_PAGES |-> [kind |-> "ok", results |-> <<>>]]}

Next ==
    \/ \E response \in ListingResponses :
          /\ Len(species_results) + Len(response.results) <= MaxEntries
          /\ get_species_for_place(response)
    \/ \E answers \in AnswersAsked : main_process_result(answers)
    \/ get_histograms_enter
    \/ \E response \in HistResponses : get_histograms_fetch(response)
    \/ get_histograms_finalize
    \/ write_data_to_csv

Spec == Init /\ [][Next]_vars

\* Every remote call returns or raises, and the gate admits every call in the
\* end: whatever step main is at is taken.
SpecFair == Spec /\ WF_vars(Next)

-----------------------------------------------------------------------------
(* The rate gate: rate_limited_api_call under @sleep_and_retry and         *)
(* @limits(calls=CALLS, period=RATE_LIMIT_PERIOD) of the ratelimit package.*)
(* limits keeps one counter and the time of its last reset: a call that    *)
(* finds the period elapsed resets both, every call counts itself, and a   *)
(* call counted beyond CALLS raises RateLimitException(period_remaining);  *)
(* sleep_and_retry sleeps that long and calls again.                       *)

\* One pass through the limits wrapper at the present time.
limits_attempt == limits(now, last_reset, num_calls)

\* The wrapped function starts (line 34), or the caller is put to sleep.
GateAttempt ==
    LET a == limits_attempt
    IN  /\ latency' = latency
        /\ last_reset' = a.last_reset
        /\ num_calls' = a.num_calls
        /\ IF a.admitted
           THEN /\ gate_pc' = "running"
                /\ starts' = Append(starts, now)
                /\ wake_at' = wake_at
           ELSE /\ gate_pc' = "sleeping"
                /\ wake_at' = now + a.period_remaining
                /\ starts' = starts

CallKinds == {"listing", "phyla", "histogram"}

\* The pipeline calls rate_limited_api_call for a request of the given kind
\* (calls are made up to the clock's horizon).
rate_limited_api_call(kind) ==
    /\ pc = "gate"
    /\ gate_pc = "idle"
    /\ now <= MaxTime
    /\ call_arg' = <<kind>>
    /\ call_ret' = ""
    /\ GateAttempt
    /\ now' = now
    /\ UNCHANGED pipeline_vars

\* A wrapper that, the sleep over, hands the gate's exception to the caller.
sleep_and_retry_gives_up ==
    /\ pc = "gate"
    /\ gate_pc = "sleeping"
    /\ now >= wake_at
    /\ gate_pc' = "idle"
    /\ call_ret' = "RateLimitException"
    /\ UNCHANGED <<pipeline_vars, call_arg, now, last_reset, num_calls, wake_at, starts,
                   latency>>

\* time.sleep(period_remaining) is over: sleep_and_retry calls again.
sleep_and_retry ==
    /\ pc = "gate"
    /\ gate_pc = "sleeping"
    /\ now >= wake_at
    /\ GateAttempt
    /\ now' = now
    /\ UNCHANGED <<pipeline_vars, call_vars>>

\* The wrapped function returns or raises; either reaches the caller as it is.
api_call_ends(outcome) ==
    /\ pc = "gate"
    /\ gate_pc = "running"
    /\ gate_pc' = "idle"
    /\ call_ret' = outcome
    /\ UNCHANGED <<pipeline_vars, call_arg, now, last_reset, num_calls, wake_at, starts,
                   latency>>

\* The clock advances, up to its horizon and past it for as long as a sleeper
\* waits for its time; start times that left the trailing window are dropped.
clock_tick ==
    /\ pc = "gate"
    /\ now < MaxTime \/ (gate_pc = "sleeping" /\ now < wake_at)
    /\ now' = now + 1
    /\ starts' = SelectSeq(starts, LAMBDA t : t > now + 1 - RATE_LIMIT_PERIOD)
    /\ UNCHANGED <<pipeline_vars, call_vars, last_reset, num_calls, gate_pc, wake_at,
                   latency>>

\* A lone call lasts as long as clock_tick runs between its start and its
\* end, so latency plays no part here.
InitGate ==
    /\ pc = "gate"
    /\ PipelineIdle
    /\ CallIdle
    /\ GateIdle
    /\ latency = 0

NextGate ==
    \/ \E kind \in CallKinds : rate_limited_api_call(kind)
    \/ sleep_and_retry
    \/ \E outcome \in {"returns", "raises"} : api_call_ends(outcome)
    \/ clock_tick

SpecGate == InitGate /\ [][NextGate]_vars

\* Time passes, and a sleep that is over returns.
SpecGateFair == SpecGate /\ WF_vars(clock_tick) /\ WF_vars(sleep_and_retry)

\* C1: no more than CALLS invocations start within any trailing window of
\* RATE_LIMIT_PERIOD seconds: the admitted calls whose start lies less than
\* RATE_LIMIT_PERIOD before the present time number at most CALLS.
C1_AtMostCallsPerTrailingWindow ==
    pc = "gate" => Len(starts) <= CALLS

\* A suspended call stays suspended, with nothing of the gate touched and
\* nothing handed to the caller, until it is admitted.
C17_SleeperIsOnlyAdmitted ==
    gate_pc = "sleeping" =>
        /\ gate_pc' \in {"sleeping", "running"}
        /\ call_ret' = call_ret
        /\ gate_pc' = "sleeping" => UNCHANGED <<wake_at, last_reset, num_calls>>
        /\ gate_pc' = "running" => now >= wake_at

\* The wrapped operation's outcome, a return or an error, is what the caller
\* gets, and the gate does not run the operation again.
C17_OutcomeReachesCaller ==
    (gate_pc = "running" /\ gate_pc' # "running") =>
        /\ gate_pc' = "idle"
        /\ call_ret' \in {"returns", "raises"}
        /\ UNCHANGED <<last_reset, num_calls, starts, wake_at>>

\* C17: the gate only delays: a call that finds the budget used up is suspended
\* (not dropped, no error of the gate reaches the caller) and is admitted once
\* its window has elapsed; what the wrapped operation returns or raises reaches
\* the caller as it is and is not retried.
C17_GateOnlyDelays ==
    /\ (gate_pc = "sleeping") ~> (gate_pc = "running")
    /\ [](call_ret \in {"", "returns", "raises"})
    /\ [][C17_SleeperIsOnlyAdmitted]_vars
    /\ [][C17_OutcomeReachesCaller]_vars

\* A call that was put to sleep runs, admitted at the end of its sleep as the
\* first call of a new window.
C17_Witness ==
    /\ pc = "gate"
    /\ gate_pc = "running"
    /\ wake_at > 0
    /\ now = wake_at
    /\ last_reset = now
    /\ num_calls = 1

-----------------------------------------------------------------------------
(* Properties of the run of main().                                        *)

Unknowns(call) == call.kingdom = "Unknown" /\ call.phylum = "Unknown"

PastListing == pc \in {"process", "histograms", "hist_fetch", "finalize", "write", "done"}

PastProcess == pc \in {"histograms", "hist_fetch", "finalize", "write", "done"}

PastFinalize == pc \in {"write", "done"}

\* C2: phylum cache population is idempotent: a call of extract_taxonomy that
\* finds phyla_ids non-empty issues no phylum-table request, does not call
\* fetch_phyla_ids and leaves the cache as it was.
C2_PopulatedCacheIsNotRefetched ==
    [][(pc = "process" /\ DOMAIN phyla_ids # {})
         => /\ phyla_log' = phyla_log
            /\ phyla_attempts' = phyla_attempts
            /\ phyla_ids' = phyla_ids]_vars

\* A second classification call ran against the cache the first one had filled.
C2_Witness ==
    /\ last_call.called
    /\ DOMAIN last_call.before # {}
    /\ idx >= 3
    /\ phyla_attempts = 1
    /\ phyla_log # <<>>

\* C3: the phylum-table build is attempted exactly once per run and never
\* retried, whatever its outcome: fetch_phyla_ids is called at most once, and
\* exactly once when a taxon has been classified.
C3_PhylumBuildAttemptedOnce ==
    /\ phyla_attempts <= 1
    /\ last_call.called => phyla_attempts = 1

\* C4: the listing pages are requested in order 1, 2, ..., never more than
\* MAX_PAGES of them, and no page is requested after a page whose result set
\* was empty.
C4_ListingStopsAtEmptyPage ==
    /\ Len(listing_log) <= MAX_PAGES
    /\ \A i \in 1..Len(listing_log) :
          /\ listing_log[i].page = i
          /\ i < Len(listing_log) => listing_log[i].n > 0

\* C5: with a non-empty filter set the listing fetch requests its pages as it
\* does without one (page 1 first) and returns the entries whose taxon id is in
\* the set.
C5_FilterKeepsMembers ==
    (read_id_list_from_csv_file(filter_file) # <<>> /\ pc # "listing")
        => /\ listing_log # <<>>
           /\ listing_log[1].page = 1
           /\ PastListing
           /\ \A i \in 1..Len(species_results) :
                 species_results[i].id \in Range(read_id_list_from_csv_file(filter_file))

\* C7 as stated: a classification call that met malformed ancestor data or a
\* failure while building the phylum cache returned ("Unknown", "Unknown").
C7_AnyErrorYieldsUnknowns ==
    (last_call.called /\ (~last_call.ancestor_ids.wellformed \/ last_call.failed))
        => Unknowns(last_call)

\* C7, amended: malformed ancestor data yields ("Unknown", "Unknown"); a failure
\* while building the phylum cache is caught inside fetch_phyla_ids and the
\* taxon is classified from the kingdom table and the partial cache (kingdom
\* from position 1, phylum "Unknown" unless position 2 is in the part of the
\* cache that was built); neither ends the run (a run that ends after a
\* classification call ends by the KeyError of an entry that lacks a key main
\* indexes), and once the loop is over every taxon of the listing has its record.
C7_ClassificationErrorsAreCaught ==
    /\ (last_call.called /\ ~last_call.ancestor_ids.wellformed) => Unknowns(last_call)
    /\ (last_call.called /\ last_call.ancestor_ids.wellformed /\ last_call.failed)
          => LET ids == last_call.ancestor_ids.ids
             IN  /\ last_call.kingdom =
                       (IF Len(ids) >= 2 /\ ids[2] \in DOMAIN kingdom_ids
                        THEN kingdom_ids[ids[2]] ELSE "Unknown")
                 /\ last_call.phylum =
                       (IF Len(ids) >= 3 /\ ids[3] \in DOMAIN last_call.phyla_ids
                        THEN last_call.phyla_ids[ids[3]] ELSE "Unknown")
    /\ last_call.called =>
          \/ error = "none" /\ pc # "aborted"
          \/ /\ pc = "aborted" /\ error = "KeyError"
             /\ ~has_indexed_keys(species_results[idx])
    /\ PastProcess => \A i \in 1..Len(species_results) :
                         has_key(species_data, species_results[i].id)

\* A run got past a malformed taxon and past a failed cache build.
C7_Witness ==
    /\ PastProcess
    /\ \E i \in 1..Len(species_results) : ~species_results[i].ancestor_ids.wellformed
    /\ last_call.called /\ last_call.failed /\ ~Unknowns(last_call)
    /\ Len(species_data) >= 2

FailedTaxa == {hist_log[i].taxon_id : i \in {j \in 1..Len(hist_log) : hist_log[j].failed}}

\* C9: a failed histogram request is caught locally: no taxon is requested
\* twice, the run is not aborted by it, every species of the zero list is
\* still requested, and once the peak months are computed the species whose
\* request failed has an all-zero histogram and peak_month "No data", and the
\* report written holds a row for every species.
C9_HistogramFailureIsLocal ==
    /\ \A i, j \in 1..Len(hist_log) : hist_log[i].taxon_id = hist_log[j].taxon_id => i = j
    /\ hist_log # <<>> => (error = "none" /\ pc \in {"hist_fetch", "finalize", "write", "done"})
    /\ pc \in {"finalize", "write", "done"}
          => [i \in 1..Len(hist_log) |-> hist_log[i].taxon_id] = keys_of(species_data)
    /\ PastFinalize
          => \A i \in 1..Len(species_data) :
                species_data[i].taxon_id \in FailedTaxa
                   => /\ species_data[i].histogram = Zeros12
                      /\ species_data[i].peak_month = "No data"
    /\ pc = "done" => /\ report.written
                      /\ Len(report.rows) = Len(species_data)
                      /\ \A t \in FailedTaxa : \E i \in 1..Len(report.rows) :
                            /\ report.rows[i].taxon_id = t
                            /\ report.rows[i].peak_month = "No data"

\* The first histogram request failed, the second was still issued and
\* succeeded, and the report was written.
C9_Witness ==
    /\ pc = "done"
    /\ Len(hist_log) = 2
    /\ hist_log[1].failed /\ ~hist_log[2].failed
    /\ \E i \in 1..Len(report.rows) : report.rows[i].peak_month = "March"

\* C10: a listing request that raises ends the run: it is the last request of
\* the run (not retried, no later page), no taxon is classified, no phylum or
\* histogram request is made, no report is written, and nothing happens
\* afterwards.
C10_ListingErrorAbortsRun ==
    /\ [](\A i \in 1..Len(listing_log) :
             listing_log[i].kind = "raise"
                => /\ i = Len(listing_log)
                   /\ pc = "aborted"
                   /\ error = "RequestError"
                   /\ \A j \in 1..Len(listing_log) : listing_log[j].page = j
                   /\ species_data = <<>>
                   /\ ~last_call.called
                   /\ phyla_log = <<>>
                   /\ hist_log = <<>>
                   /\ report = NoReport)
    /\ [][pc = "aborted" => UNCHANGED vars]_vars

\* The third listing request raised after two pages had been received.
C10_Witness ==
    /\ pc = "aborted"
    /\ Len(listing_log) = 3
    /\ listing_log[3].kind = "raise"
    /\ species_results # <<>>

-----------------------------------------------------------------------------
(* extract_taxonomy called on its own, for every ancestor-id sequence up   *)
(* to MaxAncestors ids, against an empty, a partly built and a built cache.*)

AncestorIdPool == {48460, 1, 47126, 2, 20978, 999}

RECURSIVE id_seqs_up_to(_)
id_seqs_up_to(n) ==
    IF n = 0 THEN {<<>>}
    ELSE id_seqs_up_to(n - 1)
         \cup {Append(s, a) : s \in {t \in id_seqs_up_to(n - 1) : Len(t) = n - 1},
                              a \in AncestorIdPool}

AncestorInputs ==
    {[wellformed |-> TRUE, ids |-> s] : s \in id_seqs_up_to(MaxAncestors)}
    \cup {[wellformed |-> FALSE, ids |-> <<>>]}

CachesBefore ==
    { EmptyDict,
      batch_of(PhylaTable(1)),
      dict_update(batch_of(PhylaTable(1)), batch_of(PhylaTable(2))) }

InitTaxonomy ==
    /\ pc = "taxonomy"
    /\ error = "none"
    /\ filter_file = [exists |-> FALSE, rows |-> <<>>]
    /\ filter_reads = 0
    /\ filter_ids = <<>>
    /\ page = 1
    /\ species_results = <<>>
    /\ listing_log = <<>>
    /\ phyla_ids \in CachesBefore
    /\ phyla_log = <<>>
    /\ phyla_attempts = 0
    /\ idx = 1
    /\ species_data = <<>>
    /\ last_call = NoCall
    /\ zero_list = <<>>
    /\ hidx = 1
    /\ hist_log = <<>>
    /\ report = NoReport
    /\ call_arg \in AncestorInputs
    /\ call_ret = ""
    /\ GateIdle
    /\ latency \in Latencies

\* extract_taxonomy(call_arg), answers being what the service would answer.
extract_taxonomy_call(answers) ==
    /\ pc = "taxonomy"
    /\ LET tax == extract_taxonomy(call_arg, phyla_ids, answers)
       IN  /\ GatePasses(Len(tax.requests))
           /\ phyla_ids' = tax.phyla_ids
           /\ phyla_log' = phyla_log \o tax.requests
           /\ phyla_attempts' = phyla_attempts + (IF tax.attempted THEN 1 ELSE 0)
           /\ last_call' = [called |-> TRUE, ancestor_ids |-> call_arg,
                            before |-> phyla_ids,
                            kingdom |-> tax.kingdom, phylum |-> tax.phylum,
                            phyla_ids |-> tax.phyla_ids, requests |-> tax.requests,
                            attempted |-> tax.attempted, failed |-> tax.failed]
    /\ call_ret' = "returned"
    /\ pc' = "taxonomy_done"
    /\ UNCHANGED <<error, filter_file, filter_reads, filter_ids, page, species_results,
                   listing_log,
                   idx, species_data, zero_list, hidx, hist_log, report, call_arg>>

NextTaxonomy == \E answers \in AnswersAsked : extract_taxonomy_call(answers)

SpecTaxonomy == InitTaxonomy /\ [][NextTaxonomy]_vars

\* C6: for every ancestor-id sequence s, extract_taxonomy(s) returns as kingdom
\* the kingdom table's entry for s[1] when s has at least 2 ids and s[1] is in
\* the table, else "Unknown", and as phylum the phylum cache's entry for s[2]
\* when s has at least 3 ids and s[2] is in the cache, else "Unknown"; a
\* sequence shorter than 3 gets phylum "Unknown" and one shorter than 2 gets
\* ("Unknown", "Unknown").
C6_TaxonomyFromPositions1And2 ==
    (pc = "taxonomy_done" /\ call_arg.wellformed)
        => LET s == call_arg.ids
           IN  /\ last_call.kingdom =
                     (IF Len(s) >= 2 /\ s[2] \in DOMAIN kingdom_ids
                      THEN kingdom_ids[s[2]] ELSE "Unknown")
               /\ last_call.phylum =
                     (IF Len(s) >= 3 /\ s[3] \in DOMAIN phyla_ids
                      THEN phyla_ids[s[3]] ELSE "Unknown")
               /\ Len(s) < 3 => last_call.phylum = "Unknown"
               /\ Len(s) < 2 => Unknowns(last_call)

\* A sequence of three ids was classified against a cache this call built.
C6_Witness ==
    /\ pc = "taxonomy_done"
    /\ call_arg.ids = <<48460, 1, 20978>>
    /\ last_call.attempted
    /\ last_call.kingdom = "Animalia"
    /\ last_call.phylum = "Arthropoda"

-----------------------------------------------------------------------------
(* get_month_with_most_obs called on its own, for every histogram with at  *)
(* most MaxNonzeroMonths months of 1..MaxObs observations, and for the     *)
(* histogram [0,0,5,5,0,0,0,0,0,0,0,0].                                    *)

MarchAprilTie == [i \in 1..12 |-> IF i \in {3, 4} THEN 5 ELSE 0]

\* The histogram with v[m] observations in the months m of S and none elsewhere.
histogram_of(S, v) == [i \in 1..12 |-> IF i \in S THEN v[i] ELSE 0]

InitMonth ==
    /\ pc = "month"
    /\ PipelineIdle
    /\ \/ call_arg = MarchAprilTie
       \/ \E S \in SUBSET (1..12) :
             /\ Cardinality(S) <= MaxNonzeroMonths
             /\ \E v \in [S -> 1..MaxObs] : call_arg = histogram_of(S, v)
    /\ call_ret = ""
    /\ GateIdle
    /\ latency = 0

get_month_with_most_obs_call ==
    /\ pc = "month"
    /\ call_ret' = get_month_with_most_obs(call_arg)
    /\ pc' = "month_done"
    /\ UNCHANGED <<error, filter_file, filter_reads, filter_ids, page, species_results,
                   listing_log,
                   phyla_ids, phyla_log, phyla_attempts, idx, species_data, last_call,
                   zero_list, hidx, hist_log, report, call_arg>>
    /\ UNCHANGED gate_vars

NextMonth == get_month_with_most_obs_call

SpecMonth == InitMonth /\ [][NextMonth]_vars

\* C8: for a 12-element histogram of non-negative integers the result is
\* "No data" if and only if every entry is zero; otherwise it is the name of
\* the month at the smallest index holding the maximum value.
C8_PeakMonthIsFirstMaximum ==
    pc = "month_done"
        => /\ call_ret = "No data" <=> \A i \in 1..12 : call_arg[i] = 0
           /\ (\E i \in 1..12 : call_arg[i] # 0)
                 => \E i \in 1..12 :
                       /\ call_ret = months[i]
                       /\ \A j \in 1..12 : call_arg[j] <= call_arg[i]
                       /\ \A j \in 1..(i - 1) : call_arg[j] < call_arg[i]

\* The tie of March and April went to March.
C8_Witness ==
    /\ pc = "month_done"
    /\ call_arg = MarchAprilTie
    /\ call_ret = "March"

-----------------------------------------------------------------------------
(* write_data_to_csv on its own: any species collection, written once.     *)

\* The record of the i-th species inserted, with the given count, as it is after
\* get_histograms.
report_row(i, count) ==
    [iconic_taxon_name |-> "Animalia",
     kingdom           |-> "Animalia",
     phylum            |-> "Chordata",
     common_name       |-> "",
     latin_name        |-> "Aus bus",
     taxon_id          |-> i,
     count             |-> count,
     histogram         |-> Zeros12,
     peak_month        |-> "No data"]

\* The species A, B, C, D inserted in this order with the counts 3, 7, 7, 1.
TieExample == <<report_row(1, 3), report_row(2, 7), report_row(3, 7), report_row(4, 1)>>

InitReport ==
    /\ pc = "write"
    /\ error = "none"
    /\ filter_file = [exists |-> FALSE, rows |-> <<>>]
    /\ filter_reads = 0
    /\ filter_ids = <<>>
    /\ page = 1
    /\ species_results = <<>>
    /\ listing_log = <<>>
    /\ phyla_ids = EmptyDict
    /\ phyla_log = <<>>
    /\ phyla_attempts = 0
    /\ idx = 1
    /\ \/ \E n \in 0..MaxRows : \E c \in [1..n -> 0..MaxCount] :
             species_data = [i \in 1..n |-> report_row(i, c[i])]
       \/ species_data = TieExample
    /\ last_call = NoCall
    /\ zero_list = <<>>
    /\ hidx = 1
    /\ hist_log = <<>>
    /\ report = NoReport
    /\ CallIdle
    /\ GateIdle
    /\ latency = 0

NextReport == write_data_to_csv

SpecReport == InitReport /\ [][NextReport]_vars

\* The place of a report row in the species collection.
inserted_at(row) == CHOOSE i \in 1..Len(species_data) : species_data[i] = row

\* C11: the report's rows are the collection's records ordered by count, largest
\* first, and rows of equal count stand in the order they were inserted in.
C11_RowsByCountDescendingStable ==
    report.written =>
        /\ Len(report.rows) = Len(species_data)
        /\ Range(report.rows) = Range(species_data)
        /\ \A j, k \in 1..Len(report.rows) :
              j < k =>
                 \/ report.rows[j].count > report.rows[k].count
                 \/ /\ report.rows[j].count = report.rows[k].count
                    /\ inserted_at(report.rows[j]) < inserted_at(report.rows[k])

C11_Witness ==
    /\ report.written
    /\ species_data = TieExample
    /\ keys_of(report.rows) = <<2, 3, 1, 4>>

-----------------------------------------------------------------------------
(* The outcomes of a run.                                                  *)

\* The taxon ids the service returned in its listing pages.
ListedIds ==
    UNION { {listing_log[i].results[j].id : j \in 1..Len(listing_log[i].results)} :
            i \in 1..Len(listing_log) }

\* The run was ended by an error of the listing fetch: the fetcher did not
\* return, and nothing was done after it.
AbortedInListing ==
    /\ pc = "aborted"
    /\ \/ error = "AttributeError"
       \/ /\ listing_log # <<>>
          /\ listing_log[Len(listing_log)].kind \in {"raise", "empty_dict"}
    /\ idx = 1 /\ species_data = <<>> /\ phyla_log = <<>> /\ hist_log = <<>>

\* C12: a run that has not ended can go on; a run that ended either was aborted
\* by an error of the listing fetch, with nothing written, or wrote a report
\* with one row for every distinct taxon id the listing returned, each row
\* with a histogram of twelve entries and a peak month, whatever the taxonomy
\* and the histogram of the species turned out to be.
C12_RunAbortsInListingOrWritesEverySpecies ==
    /\ pc \notin {"done", "aborted"} => ENABLED Next
    /\ report.written => pc = "done"
    /\ pc = "aborted" => (AbortedInListing /\ ~report.written)
    /\ pc = "done" =>
          /\ error = "none"
          /\ report.written
          /\ Range(keys_of(report.rows)) = ListedIds
          /\ Len(report.rows) = Cardinality(ListedIds)
          /\ \A i \in 1..Len(report.rows) :
                /\ Len(report.rows[i].histogram) = 12
                /\ report.rows[i].peak_month \in Range(months) \cup {"No data"}

-----------------------------------------------------------------------------
(* The life of a species record inside get_histograms.                     *)

InGetHistograms == pc \in {"histograms", "hist_fetch", "finalize", "write", "done"}

requested_ids(log) == {log[i].taxon_id : i \in 1..Len(log)}

\* 0: no data, 1: individually fetched, 2: finalized
stage_of(record, log) ==
    IF record.peak_month # "(unset)" THEN 2
    ELSE IF record.taxon_id \in requested_ids(log) THEN 1
    ELSE 0

\* The month the histogram peaks in, read off the histogram itself.
peak_agrees(record) ==
    IF \A m \in 1..12 : record.histogram[m] = 0
    THEN record.peak_month = "No data"
    ELSE \E m \in 1..12 :
            /\ record.peak_month = months[m]
            /\ \A k \in 1..12 : record.histogram[k] <= record.histogram[m]
            /\ \A k \in 1..(m - 1) : record.histogram[k] < record.histogram[m]

C13_StagesOnlyAdvance ==
    InGetHistograms =>
        /\ keys_of(species_data') = keys_of(species_data)
        /\ \A i \in 1..Len(species_data) :
              /\ stage_of(species_data'[i], hist_log') >= stage_of(species_data[i], hist_log)
              /\ species_data[i].peak_month # "(unset)" => species_data'[i] = species_data[i]

C13_FetchedOnceThenFinalized ==
    /\ pc = "histograms" =>
          \A i \in 1..Len(species_data) : stage_of(species_data[i], hist_log) = 0
    /\ pc = "hist_fetch" =>
          /\ zero_list = keys_of(species_data)
          /\ [i \in 1..Len(hist_log) |-> hist_log[i].taxon_id] = SubSeq(zero_list, 1, hidx - 1)
          /\ \A i \in 1..Len(species_data) : species_data[i].peak_month = "(unset)"
    /\ pc \in {"finalize", "write", "done"} =>
          [i \in 1..Len(hist_log) |-> hist_log[i].taxon_id] = keys_of(species_data)
    /\ pc = "finalize" =>
          \A i \in 1..Len(species_data) : stage_of(species_data[i], hist_log) = 1
    /\ pc \in {"write", "done"} =>
          \A i \in 1..Len(species_data) : stage_of(species_data[i], hist_log) = 2
    /\ report.written =>
          \A i \in 1..Len(report.rows) : peak_agrees(report.rows[i])

\* C13: inside get_histograms a species record goes from no data to individually
\* fetched to finalized and never back; every species (all of them enter with
\* an all-zero histogram) is requested exactly once, in order; peak_month is
\* set for all species together after the last request, a record is not
\* touched again once it has its peak_month, and every row written has a
\* peak_month that agrees with its histogram.
C13_HistogramStateMachine ==
    /\ []C13_FetchedOnceThenFinalized
    /\ [][C13_StagesOnlyAdvance]_vars

C13_Witness ==
    /\ pc = "done"
    /\ Len(hist_log) = 2
    /\ \E i \in 1..2 : report.rows[i].peak_month = "March"
    /\ \E i \in 1..2 : report.rows[i].peak_month = "No data"

-----------------------------------------------------------------------------
(* get_histogram_for_species on its own, called for a taxon id: the        *)
(* request raises, or it answers with a mapping of at most MaxMonthKeys of *)
(* the keys 0..13 to counts 0..MaxObs (13 is no month: its position is out *)
(* of range).                                                              *)

MonthKeys == 0..13

\* The items of the mapping v over the keys S, by ascending key.
RECURSIVE items_of(_, _)
items_of(S, v) ==
    IF S = {} THEN <<>>
    ELSE LET m == CHOOSE x \in S : \A y \in S : x <= y
         IN  <<<<m, v[m]>>>> \o items_of(S \ {m}, v)

\* The taxa the histogram is asked for.
HistogramTaxa == {EntryA.id, EntryB.id}

InitHistogram ==
    /\ pc = "histogram"
    /\ PipelineIdle
    /\ \E taxon_id \in HistogramTaxa :
          \/ call_arg = [taxon_id |-> taxon_id, kind |-> "raise", items |-> <<>>]
          \/ \E S \in SUBSET MonthKeys :
                /\ Cardinality(S) <= MaxMonthKeys
                /\ \E v \in [S -> 0..MaxObs] :
                      call_arg = [taxon_id |-> taxon_id, kind |-> "ok",
                                  items |-> items_of(S, v)]
    /\ call_ret = ""
    /\ GateIdle
    /\ latency \in Latencies

\* The one request of line 263 is issued whatever its outcome.
get_histogram_for_species_call ==
    /\ pc = "histogram"
    /\ LET got == get_histogram_for_species(call_arg)
       IN  /\ call_ret' = got.histogram
           /\ hist_log' = Append(hist_log, [taxon_id |-> call_arg.taxon_id,
                                            failed   |-> got.failed])
    /\ pc' = "histogram_done"
    /\ UNCHANGED <<error, filter_file, filter_reads, filter_ids, page, species_results,
                   listing_log,
                   phyla_ids, phyla_log, phyla_attempts, idx, species_data, last_call,
                   zero_list, hidx, report, call_arg>>
    /\ GatePasses(1)

NextHistogram == get_histogram_for_species_call

SpecHistogram == InitHistogram /\ [][NextHistogram]_vars

answered_months(response) == {response.items[i][1] : i \in 1..Len(response.items)}

\* C14: the list returned has twelve entries; when the request succeeds with a
\* mapping of months 1..12 to counts, entry m-1 (here: position m) is the count
\* of month m and the months the mapping lacks are 0; when the request raises,
\* or a key has no position in the list, the list is twelve zeros.
C14_TwelveEntriesByMonth ==
    pc = "histogram_done" =>
        /\ Len(call_ret) = 12
        /\ call_arg.kind = "raise" => call_ret = Zeros12
        /\ (call_arg.kind = "ok" /\ 13 \in answered_months(call_arg)) => call_ret = Zeros12
        /\ (call_arg.kind = "ok" /\ answered_months(call_arg) \subseteq 1..12) =>
              \A m \in 1..12 :
                 /\ m \notin answered_months(call_arg) => call_ret[m] = 0
                 /\ \A i \in 1..Len(call_arg.items) :
                       call_arg.items[i][1] = m => call_ret[m] = call_arg.items[i][2]

\* The mapping {3: 2, 12: 1} gave March 2 and December 1.
C14_Witness ==
    /\ pc = "histogram_done"
    /\ call_arg.kind = "ok" /\ call_arg.items = << <<3, 2>>, <<12, 1>> >>
    /\ hist_log = <<[taxon_id |-> call_arg.taxon_id, failed |-> FALSE]>>
    /\ call_ret[3] = 2 /\ call_ret[12] = 1 /\ call_ret[1] = 0

-----------------------------------------------------------------------------
(* fetch_phyla_ids on its own: one population attempt on the empty cache,  *)
(* the service answering the pages as call_arg says.                       *)

InitPhyla ==
    /\ pc = "phyla"
    /\ PipelineIdle
    /\ call_arg \in PhylaAnswers
    /\ call_ret = ""
    /\ GateIdle
    /\ latency \in Latencies

fetch_phyla_ids_call ==
    /\ pc = "phyla"
    /\ LET got == fetch_phyla_ids(phyla_ids, call_arg)
       IN  /\ phyla_ids' = got.phyla_ids
           /\ phyla_log' = phyla_log \o got.requests
           /\ call_ret' = [returned |-> got.phyla_ids]
           /\ GatePasses(Len(got.requests))
    /\ phyla_attempts' = phyla_attempts + 1
    /\ pc' = "phyla_done"
    /\ UNCHANGED <<error, filter_file, filter_reads, filter_ids, page, species_results,
                   listing_log, idx, species_data, last_call,
                   zero_list, hidx, hist_log, report, call_arg>>

NextPhyla == fetch_phyla_ids_call

SpecPhyla == InitPhyla /\ [][NextPhyla]_vars

\* The id-to-name pairs a dict holds, and those of the pages P of the answers.
pairs_of(cache) == {<<id, cache[id]>> : id \in DOMAIN cache}

pairs_of_pages(answers, P) ==
    UNION { {<<answers[p].results[j].id, answers[p].results[j].name>> :
               j \in 1..Len(answers[p].results)} : p \in P }

nonempty_page(answers, p) == answers[p].kind = "ok" /\ answers[p].results # <<>>

\* C15: one population attempt requests the pages 1, 2, ... in ascending order,
\* at most MAX_PAGES of them, each only if every page before it came back with
\* results, and stops short of MAX_PAGES only at a page that came back empty
\* or raised; the cache then holds exactly the pairs of the non-empty pages it
\* received.
C15_PagesAscendingUntilEmpty ==
    pc = "phyla_done" =>
        LET n == Len(phyla_log)
        IN  /\ n \in 1..MAX_PAGES
            /\ phyla_log = [i \in 1..n |-> i]
            /\ \A p \in 1..(n - 1) : nonempty_page(call_arg, p)
            /\ n < MAX_PAGES => ~nonempty_page(call_arg, n)
            /\ pairs_of(phyla_ids) =
                  pairs_of_pages(call_arg, {p \in 1..n : nonempty_page(call_arg, p)})

\* Pages 1 and 2 came with results and page 3 came empty.
C15_Witness ==
    /\ pc = "phyla_done"
    /\ phyla_log = <<1, 2, 3>>
    /\ call_arg[3] = [kind |-> "ok", results |-> <<>>]
    /\ DOMAIN phyla_ids = {2, 47115, 20978}

\* C16: when the request for page k raises, no page after k is requested, the
\* call returns (the error stays inside), and what it returns, the cache,
\* holds exactly the pairs of the pages 1..k-1.
C16_FailureKeepsEarlierPages ==
    pc = "phyla_done" =>
        \A k \in 1..MAX_PAGES :
            (k \in Range(phyla_log) /\ call_arg[k].kind = "raise") =>
                /\ phyla_log = [i \in 1..k |-> i]
                /\ error = "none"
                /\ call_ret.returned = phyla_ids
                /\ pairs_of(phyla_ids) = pairs_of_pages(call_arg, 1..(k - 1))

\* Page 3 raised after pages 1 and 2 had come with results.
C16_Witness ==
    /\ pc = "phyla_done"
    /\ phyla_log = <<1, 2, 3>>
    /\ call_arg[3].kind = "raise"
    /\ call_ret.returned = (2 :> "Chordata") @@ (47115 :> "Mollusca") @@ (20978 :> "Arthropoda")

-----------------------------------------------------------------------------
(* The filter file.                                                        *)

\* C18: the filter file is read a single time in a run.
C18_FilterFileReadOnce == filter_reads <= 1

\* get_species_for_place on its own, with any filter file of at most
\* MaxFileRows of the rows below.
CellBlank7 == <<" ", "7">>

CellMinus3 == <<"-", "3">>

FileRows ==
    { <<>>,
      <<Cell12a>>,
      <<Cell45>>,
      <<Cell12a, Cell45>>,
      <<<<>>, CellBlank7>>,
      <<CellMinus3, Cell45>> }

RECURSIVE rows_up_to(_)
rows_up_to(n) ==
    IF n = 0 THEN {<<>>}
    ELSE rows_up_to(n - 1)
         \cup {Append(f, row) : f \in {g \in rows_up_to(n - 1) : Len(g) = n - 1},
                                row \in FileRows}

InitFilter ==
    /\ pc = "listing"
    /\ error = "none"
    /\ \/ filter_file = [exists |-> FALSE, rows |-> <<>>]
       \/ \E rows \in rows_up_to(MaxFileRows) : filter_file = [exists |-> TRUE, rows |-> rows]
    /\ filter_reads = 0
    /\ filter_ids = <<>>
    /\ page = 1
    /\ species_results = <<>>
    /\ listing_log = <<>>
    /\ phyla_ids = EmptyDict
    /\ phyla_log = <<>>
    /\ phyla_attempts = 0
    /\ idx = 1
    /\ species_data = <<>>
    /\ last_call = NoCall
    /\ zero_list = <<>>
    /\ hidx = 1
    /\ hist_log = <<>>
    /\ report = NoReport
    /\ CallIdle
    /\ GateIdle
    /\ latency \in Latencies

NextFilter ==
    \E response \in ListingResponses :
        /\ Len(species_results) + Len(response.results) <= MaxEntries
        /\ get_species_for_place(response)

SpecFilter == InitFilter /\ [][NextFilter]_vars

\* The cells of a file, and the integer Python's int() reads from a cell of the
\* rows above (the other cells raise ValueError).
cells_of(file) ==
    UNION { {file.rows[i][j] : j \in 1..Len(file.rows[i])} : i \in 1..Len(file.rows) }

parsed == (Cell45 :> 45) @@ (CellBlank7 :> 7) @@ (CellMinus3 :> (0 - 3))

\* The entries of all the pages the service has answered, in order.
RECURSIVE entries_of_pages(_)
entries_of_pages(log) ==
    IF log = <<>> THEN <<>>
    ELSE entries_of_pages(SubSeq(log, 1, Len(log) - 1)) \o log[Len(log)].results

\* C19: the ids read from the filter file are, as a set, the integers of the
\* cells that parse as integers (other cells are skipped, a repeated id adds
\* nothing); a missing file gives no ids and no error; and with no ids the
\* listing fetcher keeps every entry of every page.
C19_FilterSetIsTheIntegerCells ==
    filter_reads >= 1 =>
        /\ filter_file.exists =>
              Range(filter_ids) = {parsed[c] : c \in cells_of(filter_file) \cap DOMAIN parsed}
        /\ ~filter_file.exists => (filter_ids = <<>> /\ error # "AttributeError")
        /\ filter_ids = <<>> =>
              /\ species_results = entries_of_pages(listing_log)
              /\ error \in {"none", "RequestError", "KeyError"}

\* The file  12a,45 / -3,45  was read as the ids 45 and -3.
C19_Witness ==
    /\ filter_reads = 1
    /\ filter_file = [exists |-> TRUE, rows |-> << <<Cell12a, Cell45>>, <<CellMinus3, Cell45>> >>]
    /\ Range(filter_ids) = {45, 0 - 3}

-----------------------------------------------------------------------------
(* Repeated taxon ids.                                                     *)

\* The last listing entry with the given taxon id.
last_entry(id) ==
    species_results[CHOOSE i \in 1..Len(species_results) :
                       /\ species_results[i].id = id
                       /\ \A j \in (i + 1)..Len(species_results) : species_results[j].id # id]

\* C20: the listing fetcher hands on every entry it received, repeated taxon ids
\* included; the species collection then holds one record per taxon id, with
\* the count and the other fields of the last entry of that id, and the report
\* has one row for it.
C20_LaterEntryWins ==
    PastProcess =>
        /\ species_results = entries_of_pages(listing_log)
        /\ \A id \in Range([i \in 1..Len(species_results) |-> species_results[i].id]) :
              /\ Cardinality({i \in 1..Len(species_data) : species_data[i].taxon_id = id}) = 1
              /\ LET record == dict_at(species_data, id)
                     entry  == last_entry(id)
                 IN  /\ record.count = entry.count
                     /\ record.latin_name = entry.latin_name
                     /\ record.common_name = entry.common_name
                     /\ record.iconic_taxon_name = entry.iconic_taxon_name
                     /\ ~entry.ancestor_ids.wellformed => record.kingdom = "Unknown"
              /\ report.written =>
                    /\ Cardinality({i \in 1..Len(report.rows) :
                                      report.rows[i].taxon_id = id}) = 1
                    /\ dict_at(report.rows, id).count = last_entry(id).count

\* Taxon 45 was listed with count 3 and later again with count 7: the report
\* has two rows, and the row of taxon 45 says 7.
C20_Witness ==
    /\ pc = "done"
    /\ species_results = <<EntryA, EntryB, EntryC>>
    /\ Len(report.rows) = 2
    /\ dict_at(report.rows, 45).count = 7

-----------------------------------------------------------------------------
(* What get_histograms leaves alone.                                       *)

\* A record without the two fields get_histograms writes.
kept_fields(record) ==
    [iconic_taxon_name |-> record.iconic_taxon_name,
     kingdom           |-> record.kingdom,
     phylum            |-> record.phylum,
     common_name       |-> record.common_name,
     latin_name        |-> record.latin_name,
     taxon_id          |-> record.taxon_id,
     count             |-> record.count]

C21_StepKeepsRecordsAndCache ==
    pc \in {"histograms", "hist_fetch", "finalize"} =>
        /\ Len(species_data') = Len(species_data)
        /\ \A i \in 1..Len(species_data) :
              kept_fields(species_data'[i]) = kept_fields(species_data[i])
        /\ phyla_ids' = phyla_ids
        /\ phyla_log' = phyla_log
        /\ phyla_attempts' = phyla_attempts

\* C21: get_histograms changes only the histogram and the peak_month of the
\* records: every step of it keeps the number and the order of the records,
\* the taxon_id, count, kingdom, phylum, common_name, latin_name and
\* iconic_taxon_name of each, and the phylum cache.
C21_GetHistogramsFrame == [][C21_StepKeepsRecordsAndCache]_vars

\* get_histograms has run over two classified species with a built cache: one
\* got a histogram and a peak month, the request of the other failed.
C21_Witness ==
    /\ pc = "write"
    /\ Len(species_data) = 2
    /\ DOMAIN phyla_ids # {}
    /\ \E i \in 1..2 : (species_data[i].histogram # Zeros12 /\ species_data[i].peak_month = "March")
    /\ \E i \in 1..Len(hist_log) : hist_log[i].failed
    /\ \A i \in 1..2 : species_data[i].kingdom = "Animalia"

-----------------------------------------------------------------------------
(* Termination and the number of requests.                                 *)

C22_RequestsAreBounded ==
    /\ Len(listing_log) <= MAX_PAGES
    /\ \A i \in 1..Len(listing_log) : listing_log[i].page = i
    /\ Len(hist_log) <= Cardinality(ListedIds)
    /\ pc = "aborted" => hist_log = <<>>
    /\ pc = "done" =>
          /\ Len(hist_log) = Cardinality(ListedIds)
          /\ requested_ids(hist_log) = ListedIds

\* C22: every run ends, with the report written or aborted, and stays ended;
\* it issues at most MAX_PAGES listing requests, and a run that writes its
\* report has issued exactly one histogram request for every distinct species
\* of the listing.
C22_RunTerminatesWithBoundedRequests ==
    /\ <>[](pc \in {"done", "aborted"})
    /\ [](pc = "done" => report.written)
    /\ []C22_RequestsAreBounded

\* A finished run of MAX_PAGES listing requests and three listing entries of
\* two species, with two histogram requests.
C22_Witness ==
    /\ pc = "done"
    /\ Len(listing_log) = MAX_PAGES
    /\ Len(species_results) = 3
    /\ Cardinality(ListedIds) = 2
    /\ Len(hist_log) = 2

=============================================================================
